---- MODULE Spec2Model ----
(***************************************************************************)
(* The incremental ingestion pipeline of confluence-bot                    *)
(* (src/src/ingest.py, src/src/vector_store.py,                            *)
(* src/src/confluence_client.py) as a state machine: one process runs      *)
(* ingest_from_config over a corpus of spaces, pages and PDF attachments,  *)
(* keeps its progress record in memory, upserts page batches into the      *)
(* vector index and saves the record to the progress file.                 *)
(***************************************************************************)
EXTENDS Integers, Sequences, FiniteSets, TLC

(***************************************************************************)
(* Bounds of the model.                                                    *)
(***************************************************************************)
MaxRuns == 2
MaxEvents == 1
MaxClock == 2
MaxText == 2

(***************************************************************************)
(* Program constants.                                                      *)
(***************************************************************************)
space_batch_size == 2
page_batch_size == 5
CooldownHours == 24
max_depth == 3
page_depth_limit == 3
\* one tick of the model's clock, in hours: half the cooldown
HoursPerTick == CooldownHours \div 2

None == -1
\* a text that is empty after strip()
Blank == 0
Texts == 0..MaxText

Min(a, b) == IF a < b THEN a ELSE b
Max(a, b) == IF a > b THEN a ELSE b

(***************************************************************************)
(* The content source.  A corpus gives the configured root spaces          *)
(* (config/spaces.json), the child-space relation, the ordered top-level   *)
(* page list of every space, the child-page relation, the PDF attachments  *)
(* of every page and the text every unit starts with.  A unit is <<page id, attachment id>>, attachment 0   *)
(* being the page body.                                                    *)
(***************************************************************************)
SpaceKeys == {"A", "B", "C", "D"}

Range(s) == {s[k] : k \in 1..Len(s)}

\* One space of twelve pages without attachments.
CorpusOnePlain ==
  [config_spaces |-> <<"A">>,
   child_spaces  |-> [k \in SpaceKeys |-> <<>>],
   pages         |-> [k \in SpaceKeys |->
                        IF k = "A" THEN <<1, 2, 3, 4, 5, 6, 7, 8, 9, 10, 11, 12>>
                        ELSE <<>>],
   child_pages   |-> [p \in 1..12 |-> <<>>],
   attachments   |-> [p \in 1..12 |-> <<>>],
   text0         |-> [u \in {<<p, 0>> : p \in 1..12} |-> 1]]

\* Two roots, each with one nested space: A (one page with two PDFs), its
\* child B (one page with a PDF that holds no text), C (six pages, two page
\* batches) and its child D (no pages).
CorpusNested ==
  [config_spaces |-> <<"A", "C">>,
   child_spaces  |-> [k \in SpaceKeys |->
                        IF k = "A" THEN <<"B">> ELSE IF k = "C" THEN <<"D">> ELSE <<>>],
   pages         |-> [k \in SpaceKeys |->
                        IF k = "A" THEN <<21>>
                        ELSE IF k = "B" THEN <<22>>
                        ELSE IF k = "C" THEN <<23, 24, 25, 26, 27, 28>>
                        ELSE <<>>],
   child_pages   |-> [p \in 21..28 |-> <<>>],
   attachments   |-> [p \in 21..28 |->
                        IF p = 21 THEN <<1, 2>> ELSE IF p = 22 THEN <<3>> ELSE <<>>],
   text0         |-> [u \in {<<p, 0>> : p \in 21..28} \cup {<<21, 1>>, <<21, 2>>, <<22, 3>>} |->
                        IF u = <<21, 2>> THEN 2 ELSE IF u = <<22, 3>> THEN Blank ELSE 1]]

Corpora == {CorpusOnePlain, CorpusNested}

VARIABLES
  \* the content source
  corpus, text, version,
  \* wall clock, in ticks of HoursPerTick hours
  now,
  \* progress/ingestion_progress.json
  disk,
  \* the points of the vector index, point id k at position k + 1
  index,
  \* what the collaborators were asked: units sent to the embedding endpoint
  \* in the current run, and <<unit id, fingerprint>> of every point the
  \* index accepted
  embed_log, upserted,
  \* how the last invocation ended, and the counters that bound the model
  outcome, runs, crashes, faults, edits,
  \* the ledger (key -> fingerprint) the run in progress, or the run that was
  \* killed, reaches when it is left to complete without a failure
  uninterrupted,
  \* ingest_from_config: position and locals
  pc, incremental, daily, force, resume,
  progress_data, all_spaces_to_process, processed_spaces,
  start_space_index, start_page_index, total_pages,
  i, space_idx, j, page_idx, doc_i, docs_with_embeddings,
  total_processed, total_updated, total_skipped,
  \* BackgroundIngestion (background_ingest.py): its two flags, and the
  \* number of its threads that are executing _run_ingestion
  stop_requested, ingestion_running, ingestion_threads,
  \* what the last show_ingestion_status call found in the progress file
  status_view

envVars == <<corpus, text, version, now>>
histVars == <<embed_log, upserted, outcome, uninterrupted, runs, crashes, faults, edits>>
flagVars == <<incremental, daily, force, resume>>
loopVars == <<i, space_idx, j, page_idx, doc_i>>
tallyVars == <<total_processed, total_updated, total_skipped>>
planVars == <<all_spaces_to_process, start_space_index, total_pages>>
ctlVars == <<stop_requested, ingestion_running, ingestion_threads, status_view>>
vars == <<ctlVars, envVars, disk, index, histVars, pc, flagVars, progress_data, planVars,
          processed_spaces, start_page_index, loopVars, docs_with_embeddings, tallyVars>>

Units == DOMAIN text
Pages == DOMAIN version

(***************************************************************************)
(* Progress store: load_progress, save_progress and the record's shape.    *)
(* The timestamps last_processed and last_updated and the derived          *)
(* percentage_complete are written but never read by the pipeline and are  *)
(* left out of the record.                                                 *)
(***************************************************************************)
ZeroCursor ==
  [current_space_index |-> 0, current_page_index |-> 0, current_batch_index |-> 0,
   total_spaces |-> 0, total_pages |-> 0, total_batches |-> 0]

ZeroRecord ==
  [last_run |-> None, processed_spaces |-> <<>>, processed_pages |-> <<>>,
   total_documents |-> 0, current_progress |-> ZeroCursor]

\* The file is absent, holds a complete record, or was opened for writing
\* (which truncates it) and never completed.
NoFile == [state |-> "absent", data |-> ZeroRecord]
Truncated == [state |-> "truncated", data |-> ZeroRecord]

\* a load that hands out whatever record the file's bytes belong to
load_progress_unguarded(file) == file.data

load_progress(file) == IF file.state = "ok" THEN file.data ELSE ZeroRecord

save_progress(record) == [state |-> "ok", data |-> record]

(***************************************************************************)
(* Content hash tracker.  md5 is modelled as a collision-free digest of    *)
(* the text alone.                                                         *)
(***************************************************************************)
get_content_hash(content) == (content * 37 + 11) % 101

\* a change test that reports every unit as changed
is_content_updated_always(page_id, content_hash, record) == TRUE

is_content_updated(page_id, content_hash, record) ==
  IF page_id \notin DOMAIN record.processed_pages THEN TRUE
  ELSE record.processed_pages[page_id].content_hash # content_hash

\* an update that enters the unit in the ledger and forgets the document count
update_progress_uncounted(record, space_key, page_id, content_hash, metadata) ==
  [record EXCEPT
     !.processed_pages = (page_id :> [content_hash |-> content_hash, metadata |-> metadata])
                         @@ record.processed_pages]

\* an update that takes the number of ledger entries for the document count
update_progress_by_entries(record, space_key, page_id, content_hash, metadata) ==
  LET count == IF space_key \in DOMAIN record.processed_spaces
               THEN record.processed_spaces[space_key] ELSE 0
      pages == (page_id :> [content_hash |-> content_hash, metadata |-> metadata])
               @@ record.processed_pages
  IN [record EXCEPT
        !.processed_spaces = (space_key :> (count + 1)) @@ record.processed_spaces,
        !.processed_pages = pages,
        !.total_documents = Cardinality(DOMAIN pages)]

update_progress(record, space_key, page_id, content_hash, metadata) ==
  LET count == IF space_key \in DOMAIN record.processed_spaces
               THEN record.processed_spaces[space_key] ELSE 0
  IN [record EXCEPT
        !.processed_spaces = (space_key :> (count + 1)) @@ record.processed_spaces,
        !.processed_pages = (page_id :> [content_hash |-> content_hash,
                                         metadata |-> metadata])
                            @@ record.processed_pages,
        !.total_documents = record.total_documents + 1]

update_current_progress(record, space_index, page_index, batch_index, n_spaces, n_pages, n_batches) ==
  [record EXCEPT !.current_progress =
     [current_space_index |-> space_index, current_page_index |-> page_index,
      current_batch_index |-> batch_index, total_spaces |-> n_spaces,
      total_pages |-> n_pages, total_batches |-> n_batches]]

(***************************************************************************)
(* Resume planner: a cursor whose space index is 0 is "not set".           *)
(***************************************************************************)
get_resume_point(record) ==
  LET cur == record.current_progress
  IN IF cur.current_space_index = 0
     THEN [space_index |-> 0, page_index |-> 0, batch_index |-> 0]
     ELSE [space_index |-> cur.current_space_index,
           page_index |-> cur.current_page_index,
           batch_index |-> cur.current_batch_index]

(***************************************************************************)
(* Space discovery and the planning loop of ingest_from_config.            *)
(***************************************************************************)
RECURSIVE get_all_nested_spaces(_, _, _), NestedOfChildren(_, _, _, _)
get_all_nested_spaces(child_spaces, parent_space_key, current_depth) ==
  IF current_depth >= max_depth THEN <<>>
  ELSE NestedOfChildren(child_spaces, parent_space_key,
                        child_spaces[parent_space_key], current_depth)

NestedOfChildren(child_spaces, parent_space_key, children, current_depth) ==
  IF children = <<>> THEN <<>>
  ELSE <<[key |-> Head(children), parent_key |-> parent_space_key,
          depth |-> current_depth + 1]>>
       \o get_all_nested_spaces(child_spaces, Head(children), current_depth + 1)
       \o NestedOfChildren(child_spaces, parent_space_key, Tail(children), current_depth)

RECURSIVE SpacesToProcess(_, _)
SpacesToProcess(c, config_spaces) ==
  IF config_spaces = <<>> THEN <<>>
  ELSE <<[key |-> Head(config_spaces), parent_key |-> "", depth |-> 0]>>
       \o get_all_nested_spaces(c.child_spaces, Head(config_spaces), 0)
       \o SpacesToProcess(c, Tail(config_spaces))

\* get_all_pages_recursive: the top-level pages of the space, then for every
\* parent in turn its children followed by their descendants, down to
\* page_depth_limit levels.
RECURSIVE get_children_recursive(_, _, _)
get_children_recursive(child_pages, parent_pages, level) ==
  IF level > page_depth_limit \/ parent_pages = <<>> THEN <<>>
  ELSE LET found == child_pages[Head(parent_pages)]
       IN found
          \o (IF found # <<>> THEN get_children_recursive(child_pages, found, level + 1)
              ELSE <<>>)
          \o get_children_recursive(child_pages, Tail(parent_pages), level)

get_all_pages_recursive(top_level_pages, child_pages) ==
  top_level_pages \o get_children_recursive(child_pages, top_level_pages, 1)

\* The flat page list get_all_pages_recursive returns for a space.
PagesOf(space) == get_all_pages_recursive(corpus.pages[space.key], corpus.child_pages)

RECURSIVE CountPages(_)
CountPages(spaces) ==
  IF spaces = <<>> THEN 0 ELSE Len(PagesOf(Head(spaces))) + CountPages(Tail(spaces))

(***************************************************************************)
(* get_page_with_attachments: the page body if it has text, then one       *)
(* document for every PDF attachment that has text.                        *)
(***************************************************************************)
BodyDoc(p) ==
  [id |-> <<p, 0>>, type |-> "page", text |-> text[<<p, 0>>],
   version |-> version[p], attachment_id |-> 0]

PdfDoc(p, a) ==
  [id |-> <<p, a>>, type |-> "pdf_attachment", text |-> text[<<p, a>>],
   version |-> version[p], attachment_id |-> a]

RECURSIVE PdfDocs(_, _)
PdfDocs(p, atts) ==
  IF atts = <<>> THEN <<>>
  ELSE (IF text[<<p, Head(atts)>>] # Blank THEN <<PdfDoc(p, Head(atts))>> ELSE <<>>)
       \o PdfDocs(p, Tail(atts))

get_page_with_attachments(p) ==
  (IF text[<<p, 0>>] # Blank THEN <<BodyDoc(p)>> ELSE <<>>)
  \o PdfDocs(p, corpus.attachments[p])

\* The ledger key of a document: f"{page_id}_{doc.get('type', 'page')}".
doc_id(page_id, doc) == <<page_id, doc.type>>

Metadata(doc) == [page_id |-> doc.id, version |-> doc.version, content_type |-> doc.type]

(***************************************************************************)
(* Vector index: upsert_embeddings numbers the points of one call from 0.  *)
(***************************************************************************)
Payload(doc) == [text |-> doc.text, page_id |-> doc.metadata.page_id]

upsert_embeddings(points, docs) ==
  [n \in 1..Max(Len(points), Len(docs)) |->
     IF n <= Len(docs) THEN Payload(docs[n]) ELSE points[n]]

(***************************************************************************)
(* Initial state: a corpus, no progress file, an empty index, no process.  *)
(***************************************************************************)
LocalsAtRest ==
  /\ incremental = FALSE /\ daily = FALSE /\ force = FALSE /\ resume = FALSE
  /\ progress_data = ZeroRecord
  /\ all_spaces_to_process = <<>> /\ processed_spaces = <<>>
  /\ start_space_index = 0 /\ start_page_index = 0 /\ total_pages = 0
  /\ i = 0 /\ space_idx = 0 /\ j = 0 /\ page_idx = 0 /\ doc_i = 0
  /\ docs_with_embeddings = <<>>
  /\ total_processed = 0 /\ total_updated = 0 /\ total_skipped = 0
  /\ embed_log = {}

\* files: what the progress file may hold when the first call is made
InitFrom(corpora, files) ==
  /\ corpus \in corpora
  /\ text = corpus.text0
  /\ version = [p \in DOMAIN corpus.attachments |-> 1]
  /\ now = 0
  /\ disk \in files
  /\ index = <<>>
  /\ upserted = {}
  /\ outcome = "none"
  /\ uninterrupted = <<>>
  /\ runs = 0 /\ crashes = 0 /\ faults = 0 /\ edits = 0
  /\ pc = "idle"
  /\ LocalsAtRest
  /\ stop_requested = FALSE /\ ingestion_running = FALSE
  /\ ingestion_threads = 0
  /\ status_view = "unread"

InitOver(corpora) == InitFrom(corpora, {NoFile})

Init == InitOver(Corpora)

\* The process is gone: its locals are dropped.
ResetLocals ==
  /\ incremental' = FALSE /\ daily' = FALSE /\ force' = FALSE /\ resume' = FALSE
  /\ progress_data' = ZeroRecord
  /\ all_spaces_to_process' = <<>> /\ processed_spaces' = <<>>
  /\ start_space_index' = 0 /\ start_page_index' = 0 /\ total_pages' = 0
  /\ i' = 0 /\ space_idx' = 0 /\ j' = 0 /\ page_idx' = 0 /\ doc_i' = 0
  /\ docs_with_embeddings' = <<>>
  /\ total_processed' = 0 /\ total_updated' = 0 /\ total_skipped' = 0
  /\ embed_log' = {}

(***************************************************************************)
(* Where the loops of ingest_from_config stand.                            *)
(***************************************************************************)
CurSpace == all_spaces_to_process[i + space_idx + 1]
CurPages == PagesOf(CurSpace)
CurPage == CurPages[j + page_idx + 1]
CurDocs == get_page_with_attachments(CurPage)
CurDoc == CurDocs[doc_i]
SpaceBatchLen == Min(space_batch_size, Len(all_spaces_to_process) - i)
PageBatchLen == Min(page_batch_size, Len(CurPages) - j)
TotalBatches == (Len(all_spaces_to_process) + space_batch_size - 1) \div space_batch_size

\* for space_idx, space in enumerate(space_batch) / for i in range(...)
GotoNextSpace ==
  LET more == space_idx + 1 < SpaceBatchLen
      ni == IF more THEN i ELSE i + space_batch_size
  IN /\ i' = ni
     /\ space_idx' = IF more THEN space_idx + 1 ELSE 0
     /\ j' = 0 /\ page_idx' = 0 /\ doc_i' = 0
     /\ docs_with_embeddings' = <<>>
     /\ pc' = IF ni < Len(all_spaces_to_process) THEN "space" ELSE "finalize"

\* for j in range(..., len(pages), page_batch_size), then start_page_index = 0
GotoAfterBatch ==
  IF j + page_batch_size < Len(CurPages)
  THEN /\ j' = j + page_batch_size
       /\ page_idx' = 0 /\ doc_i' = 0
       /\ docs_with_embeddings' = <<>>
       /\ pc' = "page"
       /\ UNCHANGED <<i, space_idx, start_page_index>>
  ELSE /\ start_page_index' = 0
       /\ GotoNextSpace

\* for page_idx, page in enumerate(page_batch)
GotoAfterPage ==
  /\ doc_i' = 0
  /\ UNCHANGED <<i, space_idx, j>>
  /\ IF page_idx + 1 < PageBatchLen
     THEN page_idx' = page_idx + 1 /\ pc' = "page"
     ELSE page_idx' = page_idx /\ pc' = "upsert"

\* for doc in documents
GotoAfterDoc ==
  IF doc_i < Len(CurDocs)
  THEN doc_i' = doc_i + 1 /\ pc' = "doc" /\ UNCHANGED <<i, space_idx, j, page_idx>>
  ELSE GotoAfterPage

(***************************************************************************)
(* The ledger a run reaches when nothing stops it and nothing fails: the   *)
(* loaded ledger, with the fingerprint of every unit from the start        *)
(* position on written under the unit's key, in visiting order.            *)
(***************************************************************************)
LedgerHashes(record) ==
  [k \in DOMAIN record.processed_pages |-> record.processed_pages[k].content_hash]

RECURSIVE VisitDocs(_, _, _), VisitPages(_, _, _), VisitSpaces(_, _, _, _)
VisitDocs(ledger, p, docs) ==
  IF docs = <<>> THEN ledger
  ELSE VisitDocs((doc_id(p, Head(docs)) :> get_content_hash(Head(docs).text)) @@ ledger,
                 p, Tail(docs))

VisitPages(ledger, pages, from) ==
  IF from >= Len(pages) THEN ledger
  ELSE VisitPages(VisitDocs(ledger, pages[from + 1], get_page_with_attachments(pages[from + 1])),
                  pages, from + 1)

VisitSpaces(ledger, spaces, k, from) ==
  IF k >= Len(spaces) THEN ledger
  ELSE VisitSpaces(VisitPages(ledger, PagesOf(spaces[k + 1]), from), spaces, k + 1, 0)

RunLedger(record, spaces, start) ==
  VisitSpaces(LedgerHashes(record), spaces, start.space_index, start.page_index)

(***************************************************************************)
(* ingest_from_config, from its call to the start of the space loop.       *)
(***************************************************************************)
\* a mode check that knows no cooldown
RefusedWithoutCooldown(inc, dly, frc, record) == ~(inc \/ dly) /\ ~frc

Refused(inc, dly, frc, record) ==
  IF inc \/ dly
  THEN /\ record.last_run # None
       /\ dly
       /\ (now - record.last_run) * HoursPerTick < CooldownHours
  ELSE ~frc

\* lookup_failed: the spaces whose child lookup fails (get_child_spaces then
\* yields no children); count_failed: the spaces whose page list cannot be
\* fetched in the total_pages pass.
Startup(inc, dly, frc, res, lookup_failed, count_failed) ==
  /\ pc = "idle"
  /\ incremental' = inc /\ daily' = dly /\ force' = frc /\ resume' = res
  /\ LET record == load_progress(disk)
         found == [corpus EXCEPT !.child_spaces =
                     [k \in SpaceKeys |-> IF k \in lookup_failed THEN <<>>
                                          ELSE corpus.child_spaces[k]]]
         spaces == SpacesToProcess(found, corpus.config_spaces)
         counted == SelectSeq(spaces, LAMBDA sp : sp.key \notin count_failed)
         start == IF res THEN get_resume_point(record)
                  ELSE [space_index |-> 0, page_index |-> 0, batch_index |-> 0]
     IN IF Refused(inc, dly, frc, record)
        THEN /\ pc' = "refused"
             /\ uninterrupted' = <<>>
             /\ UNCHANGED <<progress_data, planVars, start_page_index, loopVars, runs>>
        ELSE /\ progress_data' = record
             /\ all_spaces_to_process' = spaces
             /\ start_space_index' = start.space_index
             /\ start_page_index' = start.page_index
             /\ total_pages' = CountPages(counted)
             /\ i' = start.space_index
             /\ space_idx' = 0 /\ j' = 0 /\ page_idx' = 0 /\ doc_i' = 0
             /\ pc' = IF start.space_index < Len(spaces) THEN "space" ELSE "finalize"
             /\ runs' = runs + 1
             /\ uninterrupted' = IF outcome = "crashed" /\ res THEN uninterrupted
                                 ELSE RunLedger(record, spaces, start)
  /\ UNCHANGED <<envVars, disk, index, upserted, embed_log, outcome, crashes, faults, edits,
                 processed_spaces, docs_with_embeddings, tallyVars>>

\* a startup failure after which the record is stamped and saved all the same
StartupFailureStamps(inc, dly, frc, res) ==
  /\ pc = "idle"
  /\ ~Refused(inc, dly, frc, load_progress(disk))
  /\ faults' = faults + 1
  /\ outcome' = "failed"
  /\ disk' = save_progress([load_progress(disk) EXCEPT !.last_run = now])
  /\ UNCHANGED <<ctlVars, envVars, index, embed_log, upserted, uninterrupted, runs, crashes,
                 edits, pc, flagVars, progress_data, planVars, processed_spaces,
                 start_page_index, loopVars, docs_with_embeddings, tallyVars>>

\* The call passes the mode check, then ConfluenceClient() or
\* create_collection() raises: the exception is printed and raised again,
\* the call is over.
StartupFailure(inc, dly, frc, res) ==
  /\ pc = "idle"
  /\ ~Refused(inc, dly, frc, load_progress(disk))
  /\ faults' = faults + 1
  /\ outcome' = "failed"
  /\ UNCHANGED <<ctlVars, envVars, disk, index, embed_log, upserted, uninterrupted, runs,
                 crashes, edits, pc, flagVars, progress_data, planVars, processed_spaces,
                 start_page_index, loopVars, docs_with_embeddings, tallyVars>>

\* a call in which discovery and the total_pages pass meet no failure
ingest_from_config(inc, dly, frc, res) == Startup(inc, dly, frc, res, {}, {})

\* called from the command line (main.py)
StartRun(inc, dly, frc, res) ==
  ingest_from_config(inc, dly, frc, res) /\ UNCHANGED ctlVars

(***************************************************************************)
(* The space loop.                                                         *)
(***************************************************************************)
\* a space loop that begins every space at the saved page index
EnterSpaceAtSavedPage ==
  /\ pc = "space"
  /\ IF CurPages = <<>>
     THEN /\ GotoNextSpace
          /\ UNCHANGED <<processed_spaces, start_page_index>>
     ELSE /\ processed_spaces' =
               Append(processed_spaces,
                      [key |-> CurSpace.key, depth |-> CurSpace.depth,
                       page_count |-> Len(CurPages)])
          /\ UNCHANGED start_page_index
          /\ IF start_page_index < Len(CurPages)
             THEN /\ j' = start_page_index
                  /\ page_idx' = 0 /\ doc_i' = 0
                  /\ docs_with_embeddings' = <<>>
                  /\ pc' = "page"
                  /\ UNCHANGED <<i, space_idx>>
             ELSE GotoNextSpace
  /\ UNCHANGED <<ctlVars, envVars, disk, index, histVars, flagVars, progress_data, planVars, tallyVars>>

\* get_all_pages_recursive returned: an empty space is passed over, any
\* other is entered at its first page batch.
EnterSpace ==
  /\ pc = "space"
  /\ IF CurPages = <<>>
     THEN /\ GotoNextSpace
          /\ UNCHANGED <<processed_spaces, start_page_index>>
     ELSE /\ processed_spaces' =
               Append(processed_spaces,
                      [key |-> CurSpace.key, depth |-> CurSpace.depth,
                       page_count |-> Len(CurPages)])
          /\ LET first == IF space_idx = 0 /\ i = start_space_index
                          THEN start_page_index ELSE 0
             IN IF first < Len(CurPages)
                THEN /\ j' = first
                     /\ page_idx' = 0 /\ doc_i' = 0
                     /\ docs_with_embeddings' = <<>>
                     /\ pc' = "page"
                     /\ UNCHANGED <<i, space_idx, start_page_index>>
                ELSE /\ start_page_index' = 0
                     /\ GotoNextSpace
  /\ UNCHANGED <<ctlVars, envVars, disk, index, histVars, flagVars, progress_data, planVars, tallyVars>>

\* get_all_pages_recursive raised: the space is given up.
SpaceError ==
  /\ pc = "space"
  /\ faults' = faults + 1
  /\ GotoNextSpace
  /\ UNCHANGED <<ctlVars, envVars, disk, index, embed_log, upserted, outcome, uninterrupted, runs, crashes, edits,
                 flagVars, progress_data, planVars, processed_spaces, start_page_index,
                 tallyVars>>

(***************************************************************************)
(* The page loop: cursor update and fetch of the page's documents.         *)
(***************************************************************************)
CursorAtPage ==
  update_current_progress(progress_data, i, j + page_idx, j \div page_batch_size + 1,
                          Len(all_spaces_to_process), total_pages, TotalBatches)

BeginPage ==
  /\ pc = "page"
  /\ progress_data' = CursorAtPage
  /\ IF CurDocs = <<>>
     THEN GotoAfterPage
     ELSE doc_i' = 1 /\ pc' = "doc" /\ UNCHANGED <<i, space_idx, j, page_idx>>
  /\ UNCHANGED <<ctlVars, envVars, disk, index, histVars, flagVars, planVars, processed_spaces,
                 start_page_index, docs_with_embeddings, tallyVars>>

\* the page's try block raised after the cursor update
PageError ==
  /\ pc = "page"
  /\ faults' = faults + 1
  /\ progress_data' = CursorAtPage
  /\ GotoAfterPage
  /\ UNCHANGED <<ctlVars, envVars, disk, index, embed_log, upserted, outcome, uninterrupted, runs, crashes, edits,
                 flagVars, planVars, processed_spaces, start_page_index,
                 docs_with_embeddings, tallyVars>>

(***************************************************************************)
(* Unit processing.                                                        *)
(***************************************************************************)
CurKey == doc_id(CurPage, CurDoc)
CurHash == get_content_hash(CurDoc.text)
SkipsCurDoc == incremental /\ ~is_content_updated(CurKey, CurHash, progress_data)

SkipUnchanged ==
  /\ pc = "doc"
  /\ SkipsCurDoc
  /\ total_skipped' = total_skipped + 1
  /\ GotoAfterDoc
  /\ UNCHANGED <<ctlVars, envVars, disk, index, histVars, flagVars, progress_data, planVars,
                 processed_spaces, start_page_index, docs_with_embeddings,
                 total_processed, total_updated>>

\* get_embedding returned a vector: the unit is staged and entered in the ledger
EmbedOk ==
  /\ pc = "doc"
  /\ ~SkipsCurDoc
  /\ embed_log' = embed_log \cup {CurDoc.id}
  /\ docs_with_embeddings' =
       Append(docs_with_embeddings, [text |-> CurDoc.text, metadata |-> Metadata(CurDoc)])
  /\ progress_data' =
       update_progress(progress_data, CurSpace.key, CurKey, CurHash, Metadata(CurDoc))
  /\ total_processed' = total_processed + 1
  /\ total_updated' = IF incremental THEN total_updated + 1 ELSE total_updated
  /\ GotoAfterDoc
  /\ UNCHANGED <<ctlVars, envVars, disk, index, upserted, outcome, uninterrupted, runs, crashes, faults, edits,
                 flagVars, planVars, processed_spaces, start_page_index, total_skipped>>

\* an empty embedding after which the unit is entered in the ledger all the same
EmbedFailRecorded ==
  /\ pc = "doc"
  /\ ~SkipsCurDoc
  /\ faults' = faults + 1
  /\ embed_log' = embed_log \cup {CurDoc.id}
  /\ progress_data' =
       update_progress(progress_data, CurSpace.key, CurKey, CurHash, Metadata(CurDoc))
  /\ GotoAfterDoc
  /\ UNCHANGED <<ctlVars, envVars, disk, index, upserted, outcome, uninterrupted, runs, crashes, edits,
                 flagVars, planVars, processed_spaces, start_page_index,
                 docs_with_embeddings, tallyVars>>

\* get_embedding returned no vector
EmbedFail ==
  /\ pc = "doc"
  /\ ~SkipsCurDoc
  /\ faults' = faults + 1
  /\ embed_log' = embed_log \cup {CurDoc.id}
  /\ GotoAfterDoc
  /\ UNCHANGED <<ctlVars, envVars, disk, index, upserted, outcome, uninterrupted, runs, crashes, edits,
                 flagVars, progress_data, planVars, processed_spaces, start_page_index,
                 docs_with_embeddings, tallyVars>>

(***************************************************************************)
(* Batch upsert and save.                                                  *)
(***************************************************************************)
EmptyBatch ==
  /\ pc = "upsert"
  /\ docs_with_embeddings = <<>>
  /\ GotoAfterBatch
  /\ UNCHANGED <<ctlVars, envVars, disk, index, histVars, flagVars, progress_data, planVars,
                 processed_spaces, tallyVars>>

UpsertOk ==
  /\ pc = "upsert"
  /\ docs_with_embeddings # <<>>
  /\ index' = upsert_embeddings(index, docs_with_embeddings)
  /\ upserted' = upserted \cup
       {<<d.metadata.page_id, get_content_hash(d.text)>> : d \in Range(docs_with_embeddings)}
  /\ pc' = "save"
  /\ UNCHANGED <<ctlVars, envVars, disk, embed_log, outcome, uninterrupted, runs, crashes, faults, edits, flagVars,
                 progress_data, planVars, processed_spaces, start_page_index, loopVars,
                 docs_with_embeddings, tallyVars>>

\* an upsert failure that is not caught: the exception leaves the run
UpsertFailAborts ==
  /\ pc = "upsert"
  /\ docs_with_embeddings # <<>>
  /\ faults' = faults + 1
  /\ outcome' = "failed"
  /\ pc' = "idle"
  /\ ResetLocals
  /\ UNCHANGED <<ctlVars, envVars, disk, index, upserted, uninterrupted, runs, crashes, edits>>

\* upsert_embeddings raised: on to the next page batch, nothing is saved
UpsertFail ==
  /\ pc = "upsert"
  /\ docs_with_embeddings # <<>>
  /\ faults' = faults + 1
  /\ GotoAfterBatch
  /\ UNCHANGED <<ctlVars, envVars, disk, index, embed_log, upserted, outcome, uninterrupted, runs, crashes, edits,
                 flagVars, progress_data, planVars, processed_spaces, tallyVars>>

SaveBatch ==
  /\ pc = "save"
  /\ disk' = save_progress(progress_data)
  /\ GotoAfterBatch
  /\ UNCHANGED <<ctlVars, envVars, index, histVars, flagVars, progress_data, planVars,
                 processed_spaces, tallyVars>>

Finalize ==
  /\ pc = "finalize"
  /\ progress_data' = [progress_data EXCEPT !.last_run = now]
  /\ disk' = save_progress(progress_data')
  /\ pc' = "done"
  /\ UNCHANGED <<ctlVars, envVars, index, histVars, flagVars, planVars, processed_spaces,
                 start_page_index, loopVars, docs_with_embeddings, tallyVars>>

\* ingest_from_config returned
Return ==
  /\ pc \in {"done", "refused"}
  /\ outcome' = pc
  /\ uninterrupted' = <<>>
  /\ pc' = "idle"
  /\ ResetLocals
  /\ UNCHANGED <<envVars, disk, index, upserted, runs, crashes, faults, edits>>

\* ... to the command line, and the process ended
Exit == Return /\ UNCHANGED ctlVars

(***************************************************************************)
(* The process is killed.                                                  *)
(***************************************************************************)
Running == pc \in {"space", "page", "doc", "upsert", "save", "finalize"}

Crash ==
  /\ Running
  /\ crashes' = crashes + 1
  /\ outcome' = "crashed"
  /\ UNCHANGED uninterrupted
  /\ pc' = "idle"
  /\ ResetLocals
  /\ UNCHANGED <<ctlVars, envVars, disk, index, upserted, runs, faults, edits>>

\* killed inside save_progress, after open(path, "w") and before the dump
\* is complete
CrashInSave ==
  /\ pc \in {"save", "finalize"}
  /\ crashes' = crashes + 1
  /\ disk' = Truncated
  /\ outcome' = "crashed"
  /\ UNCHANGED uninterrupted
  /\ pc' = "idle"
  /\ ResetLocals
  /\ UNCHANGED <<ctlVars, envVars, index, upserted, runs, faults, edits>>

(***************************************************************************)
(* The environment between runs.                                           *)
(***************************************************************************)
Tick ==
  /\ pc = "idle"
  /\ runs > 0
  /\ now < MaxClock
  /\ now' = now + 1
  /\ UNCHANGED <<ctlVars, corpus, text, version, disk, index, histVars, pc, flagVars,
                 progress_data, planVars, processed_spaces, start_page_index, loopVars,
                 docs_with_embeddings, tallyVars>>

EditText(u, t) ==
  /\ pc = "idle"
  /\ runs > 0
  /\ t # text[u]
  /\ text' = [text EXCEPT ![u] = t]
  /\ edits' = edits + 1
  /\ UNCHANGED <<ctlVars, corpus, version, now, disk, index, embed_log, upserted, outcome, uninterrupted, runs,
                 crashes, faults, pc, flagVars, progress_data, planVars, processed_spaces,
                 start_page_index, loopVars, docs_with_embeddings, tallyVars>>

\* a new version of the page with the same text (title or layout change)
EditMeta(p) ==
  /\ pc = "idle"
  /\ runs > 0
  /\ version' = [version EXCEPT ![p] = version[p] + 1]
  /\ edits' = edits + 1
  /\ UNCHANGED <<ctlVars, corpus, text, now, disk, index, embed_log, upserted, outcome, uninterrupted, runs,
                 crashes, faults, pc, flagVars, progress_data, planVars, processed_spaces,
                 start_page_index, loopVars, docs_with_embeddings, tallyVars>>

(***************************************************************************)
(* The pipeline's own steps, and the specifications.  Spec lets one thing  *)
(* go wrong or change (a failure, a kill, an edit) over MaxRuns runs.      *)
(***************************************************************************)
Pipeline ==
  \/ EnterSpace
  \/ BeginPage
  \/ SkipUnchanged
  \/ EmbedOk
  \/ EmptyBatch
  \/ UpsertOk
  \/ SaveBatch
  \/ Finalize
  \/ Exit

Events == faults + crashes + edits

Next ==
  \/ \E inc \in BOOLEAN, dly \in BOOLEAN, frc \in BOOLEAN, res \in BOOLEAN :
       runs < MaxRuns /\ StartRun(inc, dly, frc, res)
  \/ \E inc \in BOOLEAN, dly \in BOOLEAN, frc \in BOOLEAN, res \in BOOLEAN :
       runs < MaxRuns /\ Events < MaxEvents /\ StartupFailure(inc, dly, frc, res)
  \/ Pipeline
  \/ Events < MaxEvents /\ SpaceError
  \/ Events < MaxEvents /\ PageError
  \/ Events < MaxEvents /\ EmbedFail
  \/ Events < MaxEvents /\ UpsertFail
  \/ Events < MaxEvents /\ Crash
  \/ Events < MaxEvents /\ CrashInSave
  \/ Tick
  \/ \E u \in Units, t \in Texts : Events < MaxEvents /\ EditText(u, t)
  \/ \E p \in Pages : Events < MaxEvents /\ EditMeta(p)

Spec == Init /\ [][Next]_vars

(***************************************************************************)
(* SpecResume: runs with resume=True that are killed and started again,    *)
(* over a corpus that changes only between jobs, never between a kill and  *)
(* the restart.  No call fails.                                            *)
(***************************************************************************)
MaxResumeRuns == 3
MaxCrashes == 1
MaxEdits == 1

NextResume ==
  \/ \E inc \in BOOLEAN :
       runs < MaxResumeRuns /\ StartRun(inc, FALSE, TRUE, TRUE)
  \/ Pipeline
  \/ crashes < MaxCrashes /\ Crash
  \/ crashes < MaxCrashes /\ CrashInSave
  \/ \E u \in Units, t \in Texts :
       edits < MaxEdits /\ outcome # "crashed" /\ EditText(u, t)

InitResume == Init /\ corpus = CorpusNested

SpecResume == InitResume /\ [][NextResume]_vars

(***************************************************************************)
(* Notions the claims share.                                               *)
(***************************************************************************)
\* the ledger of the progress file, as the next start would load it
PersistedLedger == load_progress(disk).processed_pages

\* the number of content units the corpus holds
TotalUnitCount == Cardinality({u \in Units : text[u] # Blank})

\* the run in progress was started with resume=True after a kill
Resumed == outcome = "crashed" /\ resume

\* the ledger entry of document d of page p is d's own and holds the
\* fingerprint of d's text
HoldsCurrent(ledger, p, d) ==
  /\ doc_id(p, d) \in DOMAIN ledger
  /\ ledger[doc_id(p, d)].metadata.page_id = d.id
  /\ ledger[doc_id(p, d)].content_hash = get_content_hash(d.text)

\* a step that processes the current document (not a kill)
VisitsCurDoc == pc = "doc" /\ pc' # "idle"

\* A run that nothing stops and in which nothing fails ends with the ledger
\* recorded in uninterrupted.
UninterruptedIsTheRunsLedger ==
  (pc = "done" /\ outcome # "crashed" /\ faults = 0)
    => LedgerHashes(progress_data) = uninterrupted

(***************************************************************************)
(* C1: from an empty progress record, a complete run followed by an        *)
(* Incremental run with resume=True, with no change of the source and no   *)
(* failure or kill in between, counts every content unit as skipped and    *)
(* none as updated in the second run.                                      *)
(***************************************************************************)
C1_SecondIncrementalRunSkipsAll ==
  (pc = "done" /\ runs = 2 /\ Events = 0 /\ incremental /\ resume)
    => (total_skipped = TotalUnitCount /\ total_updated = 0)

(***************************************************************************)
(* C2: one space of 12 pages, page batch size 5: a run started with        *)
(* resume=True after a kill begins its page loop at the page index that    *)
(* follows the pages of the batches saved before the kill (5 * N after N   *)
(* saved batches; 10 after two).                                           *)
(***************************************************************************)
PersistedPageCount ==
  Cardinality({p \in Range(corpus.pages["A"]) : <<p, "page">> \in DOMAIN PersistedLedger})

C2_ResumeStartsAfterSavedBatches ==
  (/\ corpus = CorpusOnePlain
   /\ Resumed /\ runs = 2 /\ faults = 0 /\ edits = 0
   /\ pc = "page" /\ total_processed + total_skipped = 0)
    => j = PersistedPageCount

(***************************************************************************)
(* C3: a run started with resume=True after a kill, in any mode, sends no  *)
(* unit to the embedding endpoint whose entry in the persisted ledger      *)
(* already holds the fingerprint of the unit's current text.               *)
(***************************************************************************)
C3_ResumeNeverReembedsPersisted ==
  [][(Resumed /\ VisitsCurDoc /\ embed_log' # embed_log)
       => ~HoldsCurrent(PersistedLedger, CurPage, CurDoc)]_vars

(***************************************************************************)
(* C4: a run that was killed and started again with resume=True ends with  *)
(* the same ledger (keys and fingerprints) as the uninterrupted run over   *)
(* the same corpus.                                                        *)
(***************************************************************************)
C4_ResumedLedgerEqualsUninterrupted ==
  (pc = "done" /\ Resumed /\ faults = 0)
    => LedgerHashes(progress_data) = uninterrupted

(***************************************************************************)
(* C5: every entry of the persisted ledger holds the fingerprint of a      *)
(* version of its unit that the index accepted in a successful upsert.     *)
(***************************************************************************)
C5_PersistedEntriesWereIndexed ==
  \A k \in DOMAIN PersistedLedger :
    <<PersistedLedger[k].metadata.page_id, PersistedLedger[k].content_hash>> \in upserted

(***************************************************************************)
(* C6: a kill at any point of a run, also inside save_progress, loses no   *)
(* ledger entry that an earlier batch had persisted.                       *)
(***************************************************************************)
C6_KillKeepsPersistedEntries ==
  [][crashes' = crashes + 1
       => \A k \in DOMAIN PersistedLedger :
            /\ k \in DOMAIN PersistedLedger'
            /\ PersistedLedger'[k].content_hash = PersistedLedger[k].content_hash]_vars

(***************************************************************************)
(* C7: at the end of a run every unit of a successful upsert is still a    *)
(* point of the index: no later batch took over its point id.              *)
(***************************************************************************)
C7_UpsertedUnitsStayIndexed ==
  pc = "done"
    => \A e \in upserted : \E n \in 1..Len(index) : index[n].page_id = e[1]

(***************************************************************************)
(* C8: two distinct content units of a page are never recorded under the   *)
(* same ledger key.                                                        *)
(***************************************************************************)
C8_DistinctUnitsDistinctKeys ==
  pc = "doc"
    => \A a, b \in 1..Len(CurDocs) :
         CurDocs[a].id # CurDocs[b].id => doc_id(CurPage, CurDocs[a]) # doc_id(CurPage, CurDocs[b])

\* What lines 439-479 do with a visited document in Incremental mode, in
\* terms of the ledger key: an entry under the key with the document's hash
\* skips it; otherwise an embedding is requested and the record changes
\* exactly when a vector came back.
LedgerMatchesCurDoc ==
  /\ CurKey \in DOMAIN progress_data.processed_pages
  /\ progress_data.processed_pages[CurKey].content_hash = get_content_hash(CurDoc.text)

CurDocSkipped ==
  /\ embed_log' = embed_log
  /\ progress_data' = progress_data
  /\ docs_with_embeddings' = docs_with_embeddings
  /\ total_skipped' = total_skipped + 1

CurDocRecorded ==
  /\ CurKey \in DOMAIN progress_data'.processed_pages
  /\ progress_data'.processed_pages[CurKey].content_hash = get_content_hash(CurDoc.text)

ChangeDetectionByKey ==
  [][(incremental /\ VisitsCurDoc)
       => IF LedgerMatchesCurDoc THEN CurDocSkipped
          ELSE /\ CurDoc.id \in embed_log'
               /\ \/ /\ docs_with_embeddings' # docs_with_embeddings
                     /\ CurDocRecorded
                  \/ /\ docs_with_embeddings' = docs_with_embeddings
                     /\ progress_data' = progress_data]_vars

(***************************************************************************)
(* C9: in Incremental mode, while no call has failed, a visited unit whose *)
(* own ledger entry holds the fingerprint of its text is skipped (no       *)
(* embedding request, ledger untouched), whatever the page's version; a    *)
(* visited unit that has no entry of its own in the ledger, or whose text  *)
(* differs from the recorded one, is sent to the embedding endpoint and    *)
(* its ledger fingerprint becomes the fingerprint of its text.             *)
(***************************************************************************)
C9_ChangeDetection ==
  [][(incremental /\ VisitsCurDoc /\ faults' = 0)
       => IF HoldsCurrent(progress_data.processed_pages, CurPage, CurDoc)
          THEN CurDocSkipped
          ELSE CurDoc.id \in embed_log' /\ CurDocRecorded]_vars

(***************************************************************************)
(* C10: a Daily run (daily=True, incremental=False) skips a unit whose     *)
(* fingerprint equals its ledger entry and does not send it to the         *)
(* embedding endpoint.                                                     *)
(***************************************************************************)
C10_DailySkipsUnchanged ==
  [][(daily /\ ~incremental /\ VisitsCurDoc
        /\ HoldsCurrent(progress_data.processed_pages, CurPage, CurDoc))
       => (embed_log' = embed_log /\ total_skipped' = total_skipped + 1)]_vars

(***************************************************************************)
(* C11: an invocation in Full mode without force, or in Daily mode less    *)
(* than 24 hours after last_run, is refused: it discovers nothing, sends   *)
(* nothing to the embedding endpoint or the index, and leaves the progress *)
(* file as it was.                                                         *)
(***************************************************************************)
InvokedAsRefusable ==
  \/ ~incremental' /\ ~daily' /\ ~force'
  \/ /\ daily'
     /\ load_progress(disk).last_run # None
     /\ (now - load_progress(disk).last_run) * HoursPerTick < CooldownHours

NothingTouched ==
  /\ disk' = disk /\ index' = index /\ upserted' = upserted
  /\ embed_log' = embed_log
  /\ all_spaces_to_process' = <<>>

C11_RefusedRunTouchesNothing ==
  [][/\ (pc = "idle" /\ pc' # "idle" /\ InvokedAsRefusable)
          => (pc' = "refused" /\ NothingTouched)
     /\ (pc = "refused" => NothingTouched)]_vars

\* a Daily invocation was refused over a progress file that holds a ledger
C11_Witness ==
  /\ pc = "refused" /\ daily
  /\ disk.state = "ok" /\ DOMAIN disk.data.processed_pages # {}

(***************************************************************************)
(* C12: a Daily invocation with force=True is never refused, also inside   *)
(* the 24-hour cooldown.                                                   *)
(***************************************************************************)
C12_ForcedDailyIsNotRefused == ~(pc = "refused" /\ daily /\ force)

(***************************************************************************)
(* C13: a Full-mode run with force=True and resume=True in which nothing   *)
(* fails sends every content unit of the corpus to the embedding endpoint, *)
(* whatever progress record it loaded; checked here for records left by    *)
(* runs that were not killed.                                              *)
(***************************************************************************)
C13_FullRunEmbedsEveryUnit ==
  (pc = "done" /\ ~incremental /\ ~daily /\ force /\ resume /\ faults = 0 /\ crashes = 0)
    => embed_log = {u \in Units : text[u] # Blank}

(***************************************************************************)
(* C14: with force=True an Incremental or Daily run sends every unit it    *)
(* visits to the embedding endpoint, whether or not the unit's fingerprint *)
(* matches the ledger.                                                     *)
(***************************************************************************)
C14_ForceEmbedsEveryVisitedUnit ==
  [][((incremental \/ daily) /\ force /\ VisitsCurDoc) => CurDoc.id \in embed_log']_vars

(***************************************************************************)
(* SpecConcurrent: the run as the thread of BackgroundIngestion            *)
(* (background_ingest.py), with stop requests and readers of the progress  *)
(* file (main.py show_ingestion_status) between its steps.  Here a save is *)
(* seen in its two steps: open(path, "w"), which truncates the file, and   *)
(* the dump.  No call fails and nothing is killed.                         *)
(***************************************************************************)
MaxBackgroundRuns == 2

\* start_background_ingestion, and its thread up to the point where
\* ingest_from_config entered the space loop or returned
start_background_ingestion(inc, dly, frc) ==
  /\ ~ingestion_running
  /\ ingestion_running' = TRUE
  /\ stop_requested' = FALSE
  /\ ingestion_threads' = ingestion_threads + 1
  /\ ingest_from_config(inc, dly, frc, TRUE)
  /\ UNCHANGED status_view

\* _run_ingestion: ingest_from_config returned, finally
run_ingestion_finally ==
  /\ Return
  /\ ingestion_running' = FALSE
  /\ ingestion_threads' = ingestion_threads - 1
  /\ UNCHANGED <<stop_requested, status_view>>

\* stop_ingestion: sets the flag, joins the thread for at most 30 s
stop_ingestion ==
  /\ ingestion_running
  /\ stop_requested' = TRUE
  /\ ingestion_running' = FALSE
  /\ UNCHANGED <<ingestion_threads, status_view, envVars, disk, index, histVars, pc, flagVars, progress_data,
                 planVars, processed_spaces, start_page_index, loopVars,
                 docs_with_embeddings, tallyVars>>

\* save_progress: open(progress_path, "w")
OpenProgressFile ==
  /\ pc \in {"save", "finalize"}
  /\ disk.state # "truncated"
  /\ disk' = Truncated
  /\ UNCHANGED <<ctlVars, envVars, index, histVars, pc, flagVars, progress_data,
                 planVars, processed_spaces, start_page_index, loopVars,
                 docs_with_embeddings, tallyVars>>

\* main.py status: reads the progress file
show_ingestion_status ==
  /\ status_view' = IF disk.state = "absent" THEN "first_run"
                    ELSE IF disk.state = "ok" THEN "record" ELSE "error"
  /\ UNCHANGED <<stop_requested, ingestion_running, ingestion_threads, envVars, disk, index,
                 histVars, pc,
                 flagVars, progress_data, planVars, processed_spaces, start_page_index,
                 loopVars, docs_with_embeddings, tallyVars>>

NextConcurrent ==
  \/ \E inc \in BOOLEAN, dly \in BOOLEAN, frc \in BOOLEAN :
       runs < MaxBackgroundRuns /\ start_background_ingestion(inc, dly, frc)
  \/ EnterSpace
  \/ BeginPage
  \/ SkipUnchanged
  \/ EmbedOk
  \/ EmptyBatch
  \/ UpsertOk
  \/ OpenProgressFile
  \/ SaveBatch
  \/ Finalize
  \/ run_ingestion_finally
  \/ stop_ingestion
  \/ show_ingestion_status

SpecConcurrent == Init /\ [][NextConcurrent]_vars

(***************************************************************************)
(* C15: a reader of the progress file that runs while a run is in progress *)
(* never finds an empty or half-written file.                              *)
(***************************************************************************)
C15_ReaderSeesCompleteRecord == status_view # "error"

(***************************************************************************)
(* C16: once a stop has been requested, the run finishes the page batch in *)
(* flight and starts no further page batch.                                *)
(***************************************************************************)
C16_NoBatchStartsAfterStop ==
  [][(stop_requested /\ pc \in {"upsert", "save"}) => pc' # "page"]_vars

(***************************************************************************)
(* SpecFaults: runs in which child lookups, page-list fetches, page     *)
(* fetches, embedding calls and upserts fail, up to MaxFaults times in the *)
(* loops.  The process is not killed, and every call it makes returns or   *)
(* raises: a step of the run that is possible is eventually taken.         *)
(***************************************************************************)
MaxFaults == 2
MaxFaultRuns == 2

\* no fetch fails, or the fetch fails for every configured space
FetchFailures == {{}, Range(corpus.config_spaces)}

\* a forced run during which the content source does not answer the child
\* lookup and the page count of the spaces in unreachable
StartDegraded(inc, unreachable) ==
  Startup(inc, FALSE, TRUE, TRUE, unreachable, unreachable) /\ UNCHANGED ctlVars

RunStep ==
  \/ Pipeline
  \/ faults < MaxFaults /\ SpaceError
  \/ faults < MaxFaults /\ PageError
  \/ faults < MaxFaults /\ EmbedFail
  \/ faults < MaxFaults /\ UpsertFail

NextFaults ==
  \/ \E inc \in BOOLEAN, unreachable \in FetchFailures :
       runs < MaxFaultRuns /\ StartDegraded(inc, unreachable)
  \/ RunStep

InitFaults == InitOver({CorpusNested})

SpecFaults == InitFaults /\ [][NextFaults]_vars /\ WF_vars(RunStep)

(***************************************************************************)
(* C17: whatever fails after startup, the run does not abort: from every   *)
(* space it goes on to the next one, from every page batch to the next     *)
(* one, it reaches the end of the space loop, sets last_run, saves the     *)
(* record and returns.                                                     *)
(***************************************************************************)
SpacePos == i + space_idx

EverySpaceAndBatchVisited ==
  /\ (pc \in {"space", "page", "upsert", "save"} /\ pc' = "space")
       => SpacePos' = SpacePos + 1
  /\ (pc \in {"space", "page", "upsert", "save"} /\ pc' = "finalize")
       => SpacePos + 1 >= Len(all_spaces_to_process)
  /\ (pc \in {"upsert", "save"} /\ pc' = "page")
       => (SpacePos' = SpacePos /\ j' = j + page_batch_size)
  /\ (pc \in {"upsert", "save"} /\ pc' \in {"space", "finalize"})
       => j + page_batch_size >= Len(CurPages)
  /\ (Running /\ pc' = "idle") => FALSE

RecordFinalized ==
  /\ progress_data.last_run = now
  /\ load_progress(disk) = progress_data

C17_RunNeverAborts ==
  /\ [][EverySpaceAndBatchVisited]_vars
  /\ [](pc = "done" => RecordFinalized)
  /\ [][(pc = "done" /\ pc' = "idle") => outcome' = "done"]_vars
  /\ (Running ~> (pc = "done"))

\* a run in which MaxFaults calls failed has reached its end
C17_Witness == pc = "done" /\ faults >= 2 /\ RecordFinalized

(***************************************************************************)
(* C18: when the content-source client cannot be constructed or            *)
(* create_collection fails, the call ends with the exception: nothing is   *)
(* discovered, embedded or upserted, and the progress file is as it was.   *)
(***************************************************************************)
C18_StartupFailureTouchesNothing ==
  [][(pc = "idle" /\ faults' = faults + 1)
       => (outcome' = "failed" /\ pc' = "idle" /\ NothingTouched)]_vars

\* a call failed at startup over a progress file that holds a ledger
C18_Witness ==
  /\ outcome = "failed" /\ pc = "idle"
  /\ disk.state = "ok" /\ DOMAIN disk.data.processed_pages # {}

(***************************************************************************)
(* SpecDiscovery: one forced run over corpora whose child-space and   *)
(* child-page relations are chains, diamonds and cycles.                   *)
(***************************************************************************)
DiscoveryPages == 31..33

SpaceRelations ==
  { [k \in SpaceKeys |-> <<>>],
    [k \in SpaceKeys |-> IF k = "A" THEN <<"B">> ELSE IF k = "B" THEN <<"C">>
                         ELSE IF k = "C" THEN <<"D">> ELSE <<>>],
    [k \in SpaceKeys |-> IF k = "A" THEN <<"B", "C">>
                         ELSE IF k \in {"B", "C"} THEN <<"D">> ELSE <<>>],
    [k \in SpaceKeys |-> IF k = "A" THEN <<"B">> ELSE IF k = "B" THEN <<"A">> ELSE <<>>],
    [k \in SpaceKeys |-> IF k = "A" THEN <<"A">> ELSE <<>>] }

PageRelations ==
  { [p \in DiscoveryPages |-> <<>>],
    [p \in DiscoveryPages |-> IF p = 31 THEN <<32>> ELSE IF p = 32 THEN <<33>> ELSE <<>>],
    [p \in DiscoveryPages |-> IF p = 31 THEN <<32, 33>> ELSE IF p = 32 THEN <<33>> ELSE <<>>],
    [p \in DiscoveryPages |-> IF p = 31 THEN <<32>> ELSE IF p = 32 THEN <<31>> ELSE <<>>],
    [p \in DiscoveryPages |-> IF p = 31 THEN <<31>> ELSE <<>>] }

\* root space A with the top-level page 31; no attachments
CorpusRelated(space_relation, page_relation) ==
  [config_spaces |-> <<"A">>,
   child_spaces  |-> space_relation,
   pages         |-> [k \in SpaceKeys |-> IF k = "A" THEN <<31>> ELSE <<>>],
   child_pages   |-> page_relation,
   attachments   |-> [p \in DiscoveryPages |-> <<>>],
   text0         |-> [u \in {<<p, 0>> : p \in DiscoveryPages} |-> 1]]

DiscoveryCorpora ==
  {CorpusRelated(sr, pr) : sr \in SpaceRelations, pr \in PageRelations}

InitDiscovery == InitOver(DiscoveryCorpora)

NextDiscovery ==
  \/ \E inc \in BOOLEAN : runs < 1 /\ StartRun(inc, FALSE, TRUE, TRUE)
  \/ Pipeline

SpecDiscovery == InitDiscovery /\ [][NextDiscovery]_vars

(***************************************************************************)
(* C19: over any child relation, cycles included, get_all_nested_spaces    *)
(* and get_all_pages_recursive return a list with at most as many entries  *)
(* as there are distinct nodes within reach: for the spaces, the nodes     *)
(* within max_depth hops of the root; for the pages, the top-level pages   *)
(* and the nodes within page_depth_limit hops of them.                     *)
(***************************************************************************)
ChildrenOf(relation, nodes) == UNION {Range(relation[n]) : n \in nodes}

RECURSIVE ReachableWithin(_, _, _)
ReachableWithin(relation, nodes, hops) ==
  IF hops = 0 THEN {}
  ELSE ChildrenOf(relation, nodes)
       \cup ReachableWithin(relation, ChildrenOf(relation, nodes), hops - 1)

NestedSpacesBounded ==
  Len(all_spaces_to_process) - Len(corpus.config_spaces)
    <= Cardinality(ReachableWithin(corpus.child_spaces, Range(corpus.config_spaces), max_depth))

PagesBounded ==
  LET top == Range(corpus.pages[CurSpace.key])
  IN Len(CurPages)
       <= Cardinality(top \cup ReachableWithin(corpus.child_pages, top, page_depth_limit))

C19_DiscoveryBoundedByReach ==
  /\ pc \in {"space", "page", "doc", "upsert", "save"} => NestedSpacesBounded
  /\ pc = "page" => PagesBounded

(***************************************************************************)
(* SpecPlain: one forced Full run, from no progress file, over one root    *)
(* space with 0 to MaxPages pages, no nesting, no attachments, no failure. *)
(***************************************************************************)
MaxPages == 7

CorpusPlain(n) ==
  [config_spaces |-> <<"A">>,
   child_spaces  |-> [k \in SpaceKeys |-> <<>>],
   pages         |-> [k \in SpaceKeys |-> IF k = "A" THEN [p \in 1..n |-> p] ELSE <<>>],
   child_pages   |-> [p \in 1..n |-> <<>>],
   attachments   |-> [p \in 1..n |-> <<>>],
   text0         |-> [u \in {<<p, 0>> : p \in 1..n} |-> 1]]

InitPlain == InitOver({CorpusPlain(n) : n \in 0..MaxPages})

NextPlain ==
  \/ \E res \in BOOLEAN : runs < 1 /\ StartRun(FALSE, FALSE, TRUE, res)
  \/ EnterSpace
  \/ BeginPage
  \/ EmbedOk
  \/ UpsertOk
  \/ SaveBatch
  \/ Finalize
  \/ Exit

SpecPlain == InitPlain /\ [][NextPlain]_vars

(***************************************************************************)
(* C20: the run over one root space with n pages ends with n ledger        *)
(* entries, total_documents = n and a summary that lists the one space     *)
(* with page_count = n.  As stated, for every n (C20_AsStated); on the     *)
(* code, for every n >= 1: a space without pages is passed over before it  *)
(* is entered in the summary, which is then empty (C20_PlainRunCounts).    *)
(***************************************************************************)
PageCount == Len(corpus.pages["A"])

LedgerAndCountAre(n) ==
  /\ Cardinality(DOMAIN progress_data.processed_pages) = n
  /\ progress_data.total_documents = n
  /\ load_progress(disk) = progress_data

SummaryListsRoot(n) ==
  processed_spaces = <<[key |-> "A", depth |-> 0, page_count |-> n]>>

MaxEditPages == 6

InitEdit == InitOver({CorpusPlain(n) : n \in 0..MaxEditPages})

NextEdit ==
  \/ runs = 0 /\ StartRun(FALSE, FALSE, TRUE, TRUE)
  \/ \E res \in BOOLEAN : runs = 1 /\ outcome = "done" /\ StartRun(TRUE, FALSE, FALSE, res)
  \/ \E u \in Units, t \in Texts :
       runs = 1 /\ text[u] = corpus.text0[u] /\ EditText(u, t)
  \/ EnterSpace
  \/ BeginPage
  \/ SkipUnchanged
  \/ EmbedOk
  \/ EmptyBatch
  \/ UpsertOk
  \/ SaveBatch
  \/ Finalize
  \/ Exit

SpecEdit == InitEdit /\ [][NextEdit]_vars

(***************************************************************************)
(* C21: after a complete run over one root space with n pages and a change *)
(* of the text of exactly k of them, an Incremental run reports            *)
(* updated = k and skipped = n - k, the ledger fingerprint of the k units  *)
(* becomes that of their new text and every other ledger entry is left as  *)
(* the first run wrote it.  As stated, for every new text (C21_AsStated);  *)
(* on the code, for the pages whose new text is not empty: a page whose    *)
(* text became empty yields no document, is counted in neither tally and   *)
(* keeps its old ledger entry (C21_IncrementalAfterEdit).                  *)
(***************************************************************************)
ChangedPages == {p \in 1..PageCount : text[<<p, 0>>] # corpus.text0[<<p, 0>>]}

EmptiedPages == {p \in ChangedPages : text[<<p, 0>>] = Blank}

\* the ledger entry the first run wrote for page p
FirstRunEntry(p) ==
  [content_hash |-> get_content_hash(corpus.text0[<<p, 0>>]),
   metadata |-> [page_id |-> <<p, 0>>, version |-> 1, content_type |-> "page"]]

IncrementalRunEnded == pc = "done" /\ runs = 2 /\ incremental

\* the ledger holds the new fingerprint for the pages in rewritten and the
\* first run's entry for every other page
LedgerChangedOnly(rewritten) ==
  /\ DOMAIN progress_data.processed_pages = {<<p, "page">> : p \in 1..PageCount}
  /\ \A p \in 1..PageCount :
       IF p \in rewritten
       THEN progress_data.processed_pages[<<p, "page">>].content_hash
              = get_content_hash(text[<<p, 0>>])
       ELSE progress_data.processed_pages[<<p, "page">>] = FirstRunEntry(p)

MaxStoreRuns == 1

\* the record of a forced Full run over the twelve-page space after it
\* processed the first n pages
RECURSIVE RecordAfterPages(_)
RecordAfterPages(n) ==
  IF n = 0 THEN ZeroRecord
  ELSE update_progress(
         update_current_progress(RecordAfterPages(n - 1), 0, n - 1,
                                 (n - 1) \div page_batch_size + 1, 1, 12, 1),
         "A", <<n, "page">>, get_content_hash(1),
         [page_id |-> <<n, 0>>, version |-> 1, content_type |-> "page"])

\* the records that run saves: after each page batch and at its end
SavedRecords ==
  {RecordAfterPages(5), RecordAfterPages(10), RecordAfterPages(12),
   [RecordAfterPages(12) EXCEPT !.last_run = 0]}

\* open() or read() fails on a file that holds the record r
Unreadable(r) == [state |-> "unreadable", data |-> r]

\* the file holds the beginning of the dump of r
Interrupted(r) == [state |-> "truncated", data |-> r]

ProgressFiles ==
  {NoFile, Truncated}
    \cup {save_progress(r) : r \in SavedRecords}
    \cup {Unreadable(r) : r \in SavedRecords}
    \cup {Interrupted(r) : r \in SavedRecords}

InitStore == InitFrom({CorpusOnePlain}, ProgressFiles)

NextStore ==
  \/ \E inc \in BOOLEAN, dly \in BOOLEAN, frc \in BOOLEAN, res \in BOOLEAN :
       runs < MaxStoreRuns /\ outcome = "none" /\ StartRun(inc, dly, frc, res)
  \/ Pipeline

SpecStore == InitStore /\ [][NextStore]_vars

(***************************************************************************)
(* C22: load_progress never fails its caller: over a progress file that is *)
(* absent, unreadable or not parseable the call goes on with the           *)
(* zero-valued record (empty processed_spaces and processed_pages,         *)
(* total_documents 0, zeroed cursor, no last_run), exactly as over no file *)
(* at all.                                                                 *)
(***************************************************************************)
NoRecordInFile == disk.state # "ok"

C22_LoadReturnsZeroRecord ==
  [][(pc = "idle" /\ pc' # "idle" /\ NoRecordInFile)
       => /\ load_progress(disk) = ZeroRecord
          /\ IF ~incremental' /\ ~daily' /\ ~force'
             THEN pc' = "refused"
             ELSE /\ pc' = "space"
                  /\ progress_data' = ZeroRecord
                  /\ start_space_index' = 0 /\ start_page_index' = 0]_vars

\* a run works on the zero-valued record while the file still holds the
\* beginning of a complete run's record, or that record unreadable
C22_Witness ==
  /\ pc = "page"
  /\ NoRecordInFile /\ disk.data.last_run # None
  /\ progress_data.processed_pages = <<>> /\ progress_data.total_documents = 0

(***************************************************************************)
(* C23: a run started with resume=False begins at cursor (0,0,0) whatever  *)
(* cursor the progress file holds and keeps every ledger entry it loaded;  *)
(* so in Incremental mode it still skips the units that have not changed   *)
(* since the previous run (here: the previous run completed, and nothing   *)
(* was edited, failed or killed).                                          *)
(***************************************************************************)
StartsWithoutResume == pc = "idle" /\ runs' = runs + 1 /\ ~resume'

StartsAtZeroWithLedger ==
  /\ start_space_index' = 0 /\ start_page_index' = 0 /\ i' = 0
  /\ progress_data'.processed_pages = load_progress(disk).processed_pages

C23_NoResumeKeepsLedger ==
  [][/\ StartsWithoutResume => StartsAtZeroWithLedger
     /\ (incremental /\ ~resume /\ runs = 2 /\ Events = 0 /\ faults' = 0 /\ VisitsCurDoc)
          => CurDocSkipped]_vars

(***************************************************************************)
(* C24: when the embedding call for a unit returns no vector, the unit is  *)
(* not staged for the batch upsert, the ledger and total_documents stay as *)
(* they were, and the run goes on with the next unit of the page batch:    *)
(* the next document of the page, else the next page of the batch, else    *)
(* the upsert of what the batch staged.                                    *)
(***************************************************************************)
EmbeddingCameBackEmpty == pc = "doc" /\ faults' = faults + 1

NextUnitOfBatch ==
  /\ i' = i /\ space_idx' = space_idx /\ j' = j
  /\ IF doc_i < Len(CurDocs)
     THEN pc' = "doc" /\ doc_i' = doc_i + 1 /\ page_idx' = page_idx
     ELSE IF page_idx + 1 < PageBatchLen
          THEN pc' = "page" /\ page_idx' = page_idx + 1
          ELSE pc' = "upsert" /\ page_idx' = page_idx

C24_EmptyEmbeddingSkipsUnit ==
  [][EmbeddingCameBackEmpty
       => /\ CurDoc.id \in embed_log'
          /\ docs_with_embeddings' = docs_with_embeddings
          /\ progress_data'.processed_pages = progress_data.processed_pages
          /\ progress_data'.processed_spaces = progress_data.processed_spaces
          /\ progress_data'.total_documents = progress_data.total_documents
          /\ total_processed' = total_processed
          /\ NextUnitOfBatch]_vars

\* a first run is about to upsert a page batch that holds other units, but
\* not the unit whose embedding came back empty; the ledger has no entry
\* of that unit either
C24_Witness ==
  /\ pc = "upsert" /\ runs = 1 /\ faults = 1
  /\ docs_with_embeddings # <<>>
  /\ \E u \in embed_log :
       /\ \A n \in 1..Len(docs_with_embeddings) : docs_with_embeddings[n].metadata.page_id # u
       /\ \A k \in DOMAIN progress_data.processed_pages :
            progress_data.processed_pages[k].metadata.page_id # u

(***************************************************************************)
(* C25: whenever the record is saved after a page batch of the space at    *)
(* index s of all_spaces_to_process, the saved cursor's                    *)
(* current_space_index is s, whether the space is the first or the second  *)
(* of its space batch.                                                     *)
(***************************************************************************)
C25_SavedCursorNamesTheSpace ==
  [][(pc = "save" /\ disk' # disk /\ disk'.state = "ok")
       => disk'.data.current_progress.current_space_index = SpacePos]_vars

(***************************************************************************)
(* SpecLookup: one forced Full run over a root space A whose nested spaces *)
(* and whose pages form trees, while the content source fails the child    *)
(* lookup of at most one space and at most one page.  get_child_spaces     *)
(* (confluence_client.py) and get_child_pages (ingest.py) catch the        *)
(* failure and return no children for that node.                           *)
(***************************************************************************)
LookupPages == 41..46

\* a lookup that, once any node fails, answers nothing for every node
get_children_or_nothing(relation, failing) ==
  [n \in DOMAIN relation |-> IF failing # {} THEN <<>> ELSE relation[n]]

\* get_child_spaces / get_child_pages over a source with the child
\* relation given, for every node: the children, or [] when the lookup of
\* the node fails
get_children(relation, failing) ==
  [n \in DOMAIN relation |-> IF n \in failing THEN <<>> ELSE relation[n]]

SpaceTrees ==
  { [k \in SpaceKeys |-> IF k = "A" THEN <<"B", "C">> ELSE IF k = "B" THEN <<"D">> ELSE <<>>],
    [k \in SpaceKeys |-> IF k = "A" THEN <<"B">> ELSE IF k = "B" THEN <<"C">>
                         ELSE IF k = "C" THEN <<"D">> ELSE <<>>] }

\* top-level pages 41 and 42
PageTrees ==
  { [p \in LookupPages |-> IF p = 41 THEN <<43, 44>> ELSE IF p = 43 THEN <<45>>
                           ELSE IF p = 42 THEN <<46>> ELSE <<>>],
    [p \in LookupPages |-> IF p = 41 THEN <<43>> ELSE IF p = 43 THEN <<44>>
                           ELSE IF p = 44 THEN <<45>> ELSE IF p = 42 THEN <<46>> ELSE <<>>] }

AtMostOne(S) == {{}} \cup {{n} : n \in S}

\* source_child_spaces and source_child_pages are the relations the source
\* holds, child_spaces and child_pages what the lookups return
CorpusFailing(space_tree, failing_spaces, page_tree, failing_pages) ==
  [config_spaces       |-> <<"A">>,
   source_child_spaces |-> space_tree,
   failing_spaces      |-> failing_spaces,
   child_spaces        |-> get_children(space_tree, failing_spaces),
   pages               |-> [k \in SpaceKeys |-> IF k = "A" THEN <<41, 42>> ELSE <<>>],
   source_child_pages  |-> page_tree,
   failing_pages       |-> failing_pages,
   child_pages         |-> get_children(page_tree, failing_pages),
   attachments         |-> [p \in LookupPages |-> <<>>],
   text0               |-> [u \in {<<p, 0>> : p \in LookupPages} |-> 1]]

LookupCorpora ==
  {CorpusFailing(st, fs, pt, fp) :
     st \in SpaceTrees, fs \in AtMostOne(SpaceKeys),
     pt \in PageTrees, fp \in AtMostOne(LookupPages)}

InitLookup == InitOver(LookupCorpora)

NextLookup ==
  \/ runs < 1 /\ StartRun(FALSE, FALSE, TRUE, TRUE)
  \/ EnterSpace
  \/ BeginPage
  \/ EmbedOk
  \/ UpsertOk
  \/ SaveBatch
  \/ Finalize
  \/ Exit

SpecLookup == InitLookup /\ [][NextLookup]_vars

(***************************************************************************)
(* C26: in space discovery and in page discovery a failed child lookup for *)
(* one node costs the descendants of that node and nothing else: the list  *)
(* returned holds, once each, exactly the nodes that are within the depth  *)
(* bound of the roots along a path on which no inner node's lookup failed  *)
(* (so the failing node itself, what was enumerated before it and the      *)
(* subtrees of its siblings), and every child stands after its parent.     *)
(***************************************************************************)
RECURSIVE ReachableAround(_, _, _, _)
ReachableAround(relation, nodes, failing, hops) ==
  IF hops = 0 THEN {}
  ELSE ChildrenOf(relation, nodes \ failing)
       \cup ReachableAround(relation, ChildrenOf(relation, nodes \ failing), failing, hops - 1)

\* list holds every node of expected once, and every node that is not a
\* root stands after a node of which it is a child
ListsOnceParentFirst(list, expected, roots, relation) ==
  /\ Range(list) = expected
  /\ Len(list) = Cardinality(expected)
  /\ \A n \in 1..Len(list) :
       list[n] \in roots \/ \E m \in 1..(n - 1) : list[n] \in Range(relation[list[m]])

DiscoveredSpaceKeys == [n \in 1..Len(all_spaces_to_process) |-> all_spaces_to_process[n].key]

SpacesSurviveLookupFailure ==
  LET roots == Range(corpus.config_spaces)
  IN ListsOnceParentFirst(
       DiscoveredSpaceKeys,
       roots \cup ReachableAround(corpus.source_child_spaces, roots,
                                  corpus.failing_spaces, max_depth),
       roots, corpus.source_child_spaces)

PagesSurviveLookupFailure ==
  LET top == Range(corpus.pages[CurSpace.key])
  IN ListsOnceParentFirst(
       CurPages,
       top \cup ReachableAround(corpus.source_child_pages, top,
                                corpus.failing_pages, page_depth_limit),
       top, corpus.source_child_pages)

C26_FailedLookupLosesOnlyItsSubtree ==
  /\ pc \in {"space", "page", "doc", "upsert", "save"} => SpacesSurviveLookupFailure
  /\ pc \in {"page", "doc", "upsert", "save"} => PagesSurviveLookupFailure

\* the lookups of space B and of page 43 failed: B and 43 are listed, their
\* children are not, the sibling subtrees are
C26_Witness ==
  /\ pc = "page"
  /\ corpus.failing_spaces = {"B"} /\ corpus.failing_pages = {43}
  /\ corpus.source_child_spaces["A"] = <<"B", "C">>
  /\ corpus.source_child_pages[41] = <<43, 44>>
  /\ DiscoveredSpaceKeys = <<"A", "B", "C">>
  /\ CurPages = <<41, 42, 43, 44, 46>>

(***************************************************************************)
(* C27: in an Incremental run every visited unit is counted once, as       *)
(* updated or as skipped: each step that processes a unit adds one to      *)
(* exactly one of the two tallies, a unit whose embedding came back empty  *)
(* is added to the skip tally, and when the upsert of a page batch fails   *)
(* its staged units pass from the updated tally to the skip tally.         *)
(***************************************************************************)
CountedOnce ==
  \/ total_updated' = total_updated + 1 /\ total_skipped' = total_skipped
  \/ total_updated' = total_updated /\ total_skipped' = total_skipped + 1

C27_EveryVisitedUnitCountedOnce ==
  [][/\ (incremental /\ VisitsCurDoc) => CountedOnce
     /\ (incremental /\ VisitsCurDoc /\ faults' = faults + 1)
          => total_skipped' = total_skipped + 1
     /\ (incremental /\ pc = "upsert" /\ faults' = faults + 1)
          => /\ total_updated' = total_updated - Len(docs_with_embeddings)
             /\ total_skipped' = total_skipped + Len(docs_with_embeddings)]_vars

(***************************************************************************)
(* C28: starting from the zero-valued record, over any sequence of runs:   *)
(* total_documents equals the sum of page_count over processed_spaces and  *)
(* is at least the number of entries of processed_pages, in the record a   *)
(* run works on and in the record of the progress file; it grows by 1 with *)
(* each unit staged and changes at no other step of a run; a run starts    *)
(* from the count of the file, and no write of the file lowers the count.  *)
(* A file that a kill inside save_progress left without a record (C6) has  *)
(* no count to compare.                                                    *)
(***************************************************************************)
RECURSIVE SumOver(_, _)
SumOver(f, keys) ==
  IF keys = {} THEN 0
  ELSE LET k == CHOOSE x \in keys : TRUE
       IN f[k] + SumOver(f, keys \ {k})

CountsAgree(record) ==
  /\ record.total_documents = SumOver(record.processed_spaces, DOMAIN record.processed_spaces)
  /\ record.total_documents >= Cardinality(DOMAIN record.processed_pages)

StagesOneUnit == Len(docs_with_embeddings') = Len(docs_with_embeddings) + 1

TotalDocumentsSteps ==
  /\ (Running /\ pc' # "idle")
       => progress_data'.total_documents
            = progress_data.total_documents + (IF pc = "doc" /\ StagesOneUnit THEN 1 ELSE 0)
  /\ (pc = "idle" /\ runs' = runs + 1)
       => progress_data'.total_documents = load_progress(disk).total_documents
  /\ (disk.state # "truncated" /\ disk'.state = "ok")
       => disk'.data.total_documents >= load_progress(disk).total_documents

C28_TotalDocumentsCounter ==
  /\ [](CountsAgree(progress_data) /\ CountsAgree(load_progress(disk)))
  /\ [][TotalDocumentsSteps]_vars

\* a second run ended with more documents counted than the ledger has
\* entries, and its record is in the file
C28_Witness ==
  /\ pc = "done" /\ runs = 2
  /\ progress_data.total_documents > Cardinality(DOMAIN progress_data.processed_pages) + 2
  /\ Cardinality(DOMAIN progress_data.processed_spaces) >= 2
  /\ load_progress(disk) = progress_data

(***************************************************************************)
(* SpecThreads: SpecConcurrent, with the start_background_ingestion calls  *)
(* that are made while the thread of an earlier call is still in its run.  *)
(* The guard of start_background_ingestion reads the ingestion_running     *)
(* flag only; stop_ingestion clears the flag when its join returns,        *)
(* whether the thread has ended or the 30 s have passed.  The run of the   *)
(* first thread is followed step by step; of a thread started next to it   *)
(* only the start and the end (the finally block of _run_ingestion) are.   *)
(***************************************************************************)
MaxThreads == 2

\* start_background_ingestion while an earlier thread is in ingest_from_config
start_while_running ==
  /\ ~ingestion_running
  /\ pc # "idle"
  /\ ingestion_threads < MaxThreads
  /\ ingestion_running' = TRUE
  /\ stop_requested' = FALSE
  /\ ingestion_threads' = ingestion_threads + 1
  /\ UNCHANGED <<status_view, envVars, disk, index, histVars, pc, flagVars, progress_data,
                 planVars, processed_spaces, start_page_index, loopVars,
                 docs_with_embeddings, tallyVars>>

\* the threads whose run is followed step by step
FollowedThreads == IF pc = "idle" THEN 0 ELSE 1

\* _run_ingestion, finally, in a thread whose run is not followed
other_thread_finally ==
  /\ ingestion_threads > FollowedThreads
  /\ ingestion_running' = FALSE
  /\ ingestion_threads' = ingestion_threads - 1
  /\ UNCHANGED <<stop_requested, status_view, envVars, disk, index, histVars, pc, flagVars,
                 progress_data, planVars, processed_spaces, start_page_index, loopVars,
                 docs_with_embeddings, tallyVars>>

NextThreads ==
  \/ NextConcurrent
  \/ start_while_running
  \/ other_thread_finally

SpecThreads == Init /\ [][NextThreads]_vars

(***************************************************************************)
(* C29: through any sequence of start_background_ingestion and             *)
(* stop_ingestion calls on one BackgroundIngestion object, at most one     *)
(* thread is executing ingest_from_config: a start is accepted only when   *)
(* no earlier thread is still running.  Stated for the moments when the    *)
(* earlier thread is inside the loops of its run.                          *)
(***************************************************************************)
C29_AtMostOneIngestionThread == Running => ingestion_threads <= 1

(***************************************************************************)
(* SpecShrink: a forced Full run over four root spaces that is killed at   *)
(* some point or completes, then a corpus that has shrunk (root spaces     *)
(* dropped from the configuration, pages removed from a space), then a run *)
(* with resume=True.  No call fails; a step of the run that is possible is *)
(* eventually taken.                                                       *)
(***************************************************************************)
MaxShrinkCrashes == 1

\* four root spaces: one page, one page, six pages (two page batches), two pages
CorpusWide ==
  [config_spaces |-> <<"A", "B", "C", "D">>,
   child_spaces  |-> [k \in SpaceKeys |-> <<>>],
   pages         |-> [k \in SpaceKeys |->
                        IF k = "A" THEN <<51>>
                        ELSE IF k = "B" THEN <<52>>
                        ELSE IF k = "C" THEN <<53, 54, 55, 56, 57, 58>>
                        ELSE <<59, 60>>],
   child_pages   |-> [p \in 51..60 |-> <<>>],
   attachments   |-> [p \in 51..60 |-> <<>>],
   text0         |-> [u \in {<<p, 0>> : p \in 51..60} |-> 1]]

\* what is left of it: roots C and D gone; the pages of C cut to two; root
\* D gone and the pages of C cut to one
ShrunkCorpora ==
  { [CorpusWide EXCEPT !.config_spaces = <<"A", "B">>],
    [CorpusWide EXCEPT !.pages["C"] = <<53, 54>>],
    [CorpusWide EXCEPT !.config_spaces = <<"A", "B", "C">>, !.pages["C"] = <<53>>] }

Shrink ==
  /\ pc = "idle"
  /\ runs = 1
  /\ corpus = CorpusWide
  /\ corpus' \in ShrunkCorpora
  /\ UNCHANGED <<ctlVars, text, version, now, disk, index, histVars, pc, flagVars,
                 progress_data, planVars, processed_spaces, start_page_index, loopVars,
                 docs_with_embeddings, tallyVars>>

InitShrink == InitOver({CorpusWide})

NextShrink ==
  \/ runs = 0 /\ StartRun(FALSE, FALSE, TRUE, TRUE)
  \/ \E inc \in BOOLEAN : runs = 1 /\ corpus # CorpusWide /\ StartRun(inc, FALSE, TRUE, TRUE)
  \/ Pipeline
  \/ runs = 1 /\ crashes < MaxShrinkCrashes /\ Crash
  \/ Shrink

SpecShrink == InitShrink /\ [][NextShrink]_vars /\ WF_vars(Pipeline)

(***************************************************************************)
(* C30: a run with resume=True over a corpus that has shrunk since the     *)
(* cursor was saved raises no error.  When the saved space index is past   *)
(* the end of the space list the run goes straight to Finalize; when the   *)
(* saved page index is past the end of the page list of the space resumed  *)
(* into, no page of that space is processed; every later space is begun at *)
(* page 0; the position of the run is always inside the lists; the run     *)
(* reaches its end, where last_run is set and the record is saved.         *)
(***************************************************************************)
ResumedAfterShrink == runs = 2 /\ corpus # CorpusWide

\* the space the run stands at is the one it resumed into
AtResumedSpace == space_idx = 0 /\ i = start_space_index

ShrunkStart ==
  (pc = "idle" /\ runs' = 2 /\ start_space_index' >= Len(all_spaces_to_process'))
    => pc' = "finalize"

ShrunkSpaceEntry ==
  (ResumedAfterShrink /\ pc = "space")
    => IF AtResumedSpace
       THEN IF start_page_index >= Len(CurPages)
            THEN pc' \in {"space", "finalize"} /\ embed_log' = embed_log
            ELSE pc' = "page" /\ j' = start_page_index
       ELSE IF CurPages = <<>>
            THEN pc' \in {"space", "finalize"}
            ELSE pc' = "page" /\ j' = 0

PositionInsideLists ==
  (ResumedAfterShrink /\ pc \in {"space", "page", "doc", "upsert", "save"})
    => /\ SpacePos < Len(all_spaces_to_process)
       /\ pc # "space" => j + page_idx < Len(CurPages)

C30_ShrunkCorpusResumeEnds ==
  /\ [][ShrunkStart /\ ShrunkSpaceEntry]_vars
  /\ []PositionInsideLists
  /\ []((ResumedAfterShrink /\ pc = "done") => RecordFinalized)
  /\ [][(ResumedAfterShrink /\ Running) => pc' # "idle"]_vars
  /\ ((ResumedAfterShrink /\ pc # "idle") ~> (pc = "done"))

\* the run resumed at space C with a page index past the two pages C has
\* left: it embedded no page of C, both pages of D, and ended
C30_Witness ==
  /\ pc = "done" /\ ResumedAfterShrink /\ ~incremental
  /\ corpus.pages["C"] = <<53, 54>>
  /\ start_space_index = 2
  /\ embed_log = {<<59, 0>>, <<60, 0>>}
  /\ RecordFinalized

====
